---- MODULE Spec2Model ----
(***************************************************************************)
(* A state-machine model of the bitsbay backend: the marketplace listing   *)
(* service (marketplace/views.py, permissions.py, serializers.py,          *)
(* pagination.py), the identity-token sign-in and the session tokens       *)
(* (core_users/views.py, core/settings.py SIMPLE_JWT) and the profile      *)
(* update (core_users/views.py, serializers.py).                           *)
(*                                                                         *)
(* Conventions.  An optional value (Python None or a value) is a sequence  *)
(* of length 0 or 1.  A text whose characters matter (a phone number) is a *)
(* sequence of one-character strings; other texts are atomic strings.  A   *)
(* request body is a function from the field names it carries to values.  *)
(* Responses are HTTP status codes.  Every request handler is one action;  *)
(* the sign-in handler is split at its database statements because its     *)
(* get_or_create / save pair is not one transaction.                       *)
(***************************************************************************)
EXTENDS Integers, Sequences, FiniteSets, TLC

VARIABLES
    users,          \* CustomUser table: pk -> row
    listings,       \* Listing table: pk -> row; a deleted row leaves the domain
    nextId,         \* the Listing table's next primary key
    creator,        \* history: Listing pk -> the user whose create request made it
    issued,         \* refresh tokens signed so far: jti -> the token's user_id claim
    blacklist,      \* token_blacklist: the jti's blacklisted
    expiredUpTo,    \* refresh tokens 1..expiredUpTo are past REFRESH_TOKEN_LIFETIME
    pc,             \* sign-in requests in flight: worker -> position and locals
    phoneInput,     \* the phone_number value the profile requests submit
    pgParam,        \* the page_size query parameter of the pagination requests
    last            \* the latest request together with its response

vars == <<users, listings, nextId, creator, issued, blacklist, expiredUpTo,
          pc, phoneInput, pgParam, last>>

listingVars == <<listings, nextId, creator>>
tokenVars   == <<issued, blacklist, expiredUpTo>>
inputVars   == <<phoneInput, pgParam>>

(***************************************************************************)
(* Bounds of the model.                                                    *)
(***************************************************************************)
MaxListings == 2      \* listings ever created in one behaviour
MaxPage     == 2      \* page numbers a request asks for: 1..MaxPage
MaxTokens   == 3      \* refresh tokens signed in one behaviour
MaxPhoneLen == 11     \* characters of a submitted phone number, before padding
MaxCount    == 17     \* listings in the store of a pagination request
MaxSizeParam == 101   \* page_size parameters of a pagination request: 0..MaxSizeParam

(***************************************************************************)
(* Generic helpers.                                                        *)
(***************************************************************************)
None == <<>>
Some(x) == <<x>>

\* A row or body r overwritten by the fields of v that r has.
Merge(r, v) == [k \in DOMAIN r |-> IF k \in DOMAIN v THEN v[k] ELSE r[k]]

\* A body restricted to the field names F.
Restrict(b, F) == [k \in (DOMAIN b) \cap F |-> b[k]]

Min(a, b) == IF a <= b THEN a ELSE b

\* math.ceil(n / d) for n >= 0, d > 0.
CeilDiv(n, d) == (n + d - 1) \div d

\* The elements of a finite set of (pk, created_at) pairs, newest first.
RECURSIVE NewestFirst(_, _)
NewestFirst(S, at) ==
    IF S = {} THEN <<>>
    ELSE LET m == CHOOSE x \in S : \A y \in S : at[y] <= at[x]
         IN  <<m>> \o NewestFirst(S \ {m}, at)

(***************************************************************************)
(* Identities.  request.user is a CustomUser pk, or AnonymousUser when the *)
(* request carries no credentials.                                         *)
(***************************************************************************)
AnonymousUser == 0
UserIds == {1, 2}
Requesters == UserIds \cup {AnonymousUser}

\* The rows of the two accounts the listing and profile requests act for.
\* password "!" is the unusable-password marker, "" the blank initial value;
\* username is null, as CustomUser.save() stores a blank one.
Digit == "7"
TenDigits == [i \in 1..10 |-> Digit]
ExistingUsers ==
    (1 :> [email |-> "a@x", username |-> None, first_name |-> "Ann",
           last_name |-> "A", phone_number |-> None, password |-> "!"]) @@
    (2 :> [email |-> "b@x", username |-> None, first_name |-> "Bob",
           last_name |-> "B", phone_number |-> Some(TenDigits), password |-> "!"])

(***************************************************************************)
(* marketplace/permissions.py and the permission classes of views.py.      *)
(***************************************************************************)
SAFE_METHODS == {"GET", "HEAD", "OPTIONS"}

Method(action) ==
    CASE action = "create"         -> "POST"
      [] action = "update"         -> "PUT"
      [] action = "partial_update" -> "PATCH"
      [] action = "destroy"        -> "DELETE"
      [] OTHER                     -> "GET"

is_authenticated(user) == user # AnonymousUser

IsAuthenticated(user) == is_authenticated(user)

IsAuthenticatedOrReadOnly_Open(method, user) == TRUE
IsAuthenticatedOrReadOnly(method, user) ==
    method \in SAFE_METHODS \/ is_authenticated(user)

\* BasePermission.has_permission, which IsOwnerOrReadOnly.has_permission returns.
has_permission(method, user) == TRUE

has_object_permission_Open(method, user, obj) == TRUE
has_object_permission(method, user, obj) ==
    IF method \in SAFE_METHODS THEN TRUE ELSE obj.seller = user

\* The view-level check of the action's permission classes.
check_permissions(action, user) ==
    IF action = "my_listings"
    THEN IsAuthenticated(user)
    ELSE IsAuthenticatedOrReadOnly(Method(action), user)
         /\ has_permission(Method(action), user)

\* The status of a refused request: NotAuthenticated answers 401 (the JWT
\* authenticator supplies a WWW-Authenticate header), PermissionDenied 403.
permission_denied(user) == IF is_authenticated(user) THEN 403 ELSE 401

(***************************************************************************)
(* marketplace/models.py and serializers.py.                               *)
(***************************************************************************)
STATUS_CHOICES == {"available", "sold"}

WriteFields_WithSeller ==
    {"title", "description", "price", "tags", "negotiable", "year", "status", "seller"}
WriteFields ==
    {"title", "description", "price", "tags", "negotiable", "year", "status"}

RequiredFields == {"title", "description"}

\* ListingWriteSerializer.is_valid: the required fields are present unless
\* the update is partial, the texts are not blank, status is a choice.
is_valid(data, partial) ==
    /\ partial \/ RequiredFields \subseteq DOMAIN data
    /\ \A f \in RequiredFields \cap DOMAIN data : data[f] # ""
    /\ "status" \in DOMAIN data => data.status \in STATUS_CHOICES

\* serializer.validated_data: the declared fields the body carries.
validated_data(data) == Restrict(data, WriteFields)

\* A Listing with the model's defaults.
DefaultListing(seller, at) ==
    [seller |-> seller, title |-> "", description |-> "", price |-> None,
     tags |-> "", negotiable |-> FALSE, year |-> None, status |-> "available",
     created_at |-> at]

perform_create_FromBody(user, data, at) ==
    Merge(DefaultListing(IF "seller" \in DOMAIN data THEN data.seller ELSE user, at),
          validated_data(data))
\* serializer.save(seller=self.request.user)
perform_create(user, data, at) ==
    Merge(DefaultListing(user, at), validated_data(data))

\* serializer.save() of an update: the validated fields overwrite the row's.
perform_update(obj, data) == Merge(obj, validated_data(data))

\* The request bodies tried.
\* The request bodies tried: a minimal valid one; one that also sets a price
\* and names a seller; one valid only for a partial update; an invalid one.
Bodies ==
    { [title |-> "t1", description |-> "d1"],
      [title |-> "t2", description |-> "d1", price |-> Some(5), seller |-> 1],
      [price |-> Some(5)],
      [status |-> "bogus"] }

NoBody == [k \in {} |-> ""]

(***************************************************************************)
(* marketplace/pagination.py.                                              *)
(***************************************************************************)
page_size == 8
max_page_size == 100

\* PageNumberPagination.get_page_size: the page_size parameter when it is a
\* positive integer, cut to max_page_size; otherwise the class's page_size.
get_page_size(param) ==
    IF param # None /\ param[1] >= 1 THEN Min(param[1], max_page_size)
    ELSE page_size

\* Paginator.num_pages; the first page exists even when there is no item.
num_pages(count, per_page) ==
    IF count = 0 THEN 1 ELSE CeilDiv(count, per_page)

\* Paginator.page(number).object_list
page_items(qs, number, per_page) ==
    SubSeq(qs, (number - 1) * per_page + 1, Min(number * per_page, Len(qs)))

\* get_paginated_response: total_pages = math.ceil(paginator.count / self.page_size)
total_pages(count) == CeilDiv(count, page_size)

(***************************************************************************)
(* The listing service's responses.                                        *)
(***************************************************************************)
Response(kind, user, id, body, status) ==
    [kind |-> kind, user |-> user, id |-> id, body |-> body, status |-> status,
     page |-> 0, size |-> None, items |-> <<>>, total_pages |-> 0]

Paginated(kind, user, qs, number, param) ==
    LET per == get_page_size(param)
        base == [Response(kind, user, 0, NoBody, 200)
                    EXCEPT !.page = number, !.size = param]
    IN  IF number < 1 \/ number > num_pages(Len(qs), per)
        THEN [base EXCEPT !.status = 404]
        ELSE [base EXCEPT !.items = page_items(qs, number, per),
                          !.total_pages = total_pages(Len(qs))]

CreatedAt == [id \in DOMAIN listings |-> listings[id].created_at]

\* Listing.objects.all() under Meta.ordering = ['-created_at'].
queryset == NewestFirst(DOMAIN listings, CreatedAt)

othersUnchanged == UNCHANGED <<users, tokenVars, pc, inputVars>>

(***************************************************************************)
(* ListingViewSet.                                                         *)
(***************************************************************************)
List(user, number, param) ==
    /\ last' = IF ~check_permissions("list", user)
               THEN Response("list", user, 0, NoBody, permission_denied(user))
               ELSE Paginated("list", user, queryset, number, param)
    /\ UNCHANGED listingVars
    /\ othersUnchanged

Retrieve(user, id) ==
    /\ last' = IF ~check_permissions("retrieve", user)
               THEN Response("retrieve", user, id, NoBody, permission_denied(user))
               ELSE IF id \notin DOMAIN listings
               THEN Response("retrieve", user, id, NoBody, 404)
               ELSE IF ~has_object_permission("GET", user, listings[id])
               THEN Response("retrieve", user, id, NoBody, permission_denied(user))
               ELSE Response("retrieve", user, id, NoBody, 200)
    /\ UNCHANGED listingVars
    /\ othersUnchanged

Create(user, data) ==
    /\ IF ~check_permissions("create", user)
       THEN /\ last' = Response("create", user, 0, data, permission_denied(user))
            /\ UNCHANGED listingVars
       ELSE IF ~is_valid(data, FALSE)
       THEN /\ last' = Response("create", user, 0, data, 400)
            /\ UNCHANGED listingVars
       ELSE /\ nextId <= MaxListings
            /\ listings' = listings @@ (nextId :> perform_create(user, data, nextId))
            /\ creator' = creator @@ (nextId :> user)
            /\ nextId' = nextId + 1
            /\ last' = Response("create", user, nextId, data, 201)
    /\ othersUnchanged

\* update (PUT) and partial_update (PATCH): get_object, is_valid, perform_update.
Update(action, user, id, data) ==
    /\ IF ~check_permissions(action, user)
       THEN /\ last' = Response(action, user, id, data, permission_denied(user))
            /\ UNCHANGED listingVars
       ELSE IF id \notin DOMAIN listings
       THEN /\ last' = Response(action, user, id, data, 404)
            /\ UNCHANGED listingVars
       ELSE IF ~has_object_permission(Method(action), user, listings[id])
       THEN /\ last' = Response(action, user, id, data, permission_denied(user))
            /\ UNCHANGED listingVars
       ELSE IF ~is_valid(data, action = "partial_update")
       THEN /\ last' = Response(action, user, id, data, 400)
            /\ UNCHANGED listingVars
       ELSE /\ listings' = [listings EXCEPT ![id] = perform_update(@, data)]
            /\ last' = Response(action, user, id, data, 200)
            /\ UNCHANGED <<nextId, creator>>
    /\ othersUnchanged

Destroy(user, id) ==
    /\ IF ~check_permissions("destroy", user)
       THEN /\ last' = Response("destroy", user, id, NoBody, permission_denied(user))
            /\ UNCHANGED listingVars
       ELSE IF id \notin DOMAIN listings
       THEN /\ last' = Response("destroy", user, id, NoBody, 404)
            /\ UNCHANGED listingVars
       ELSE IF ~has_object_permission("DELETE", user, listings[id])
       THEN /\ last' = Response("destroy", user, id, NoBody, permission_denied(user))
            /\ UNCHANGED listingVars
       ELSE /\ listings' = [k \in DOMAIN listings \ {id} |-> listings[k]]
            /\ last' = Response("destroy", user, id, NoBody, 204)
            /\ UNCHANGED <<nextId, creator>>
    /\ othersUnchanged

MyListings_Unfiltered(user, number, param) ==
    /\ last' = IF ~check_permissions("my_listings", user)
               THEN Response("my_listings", user, 0, NoBody, permission_denied(user))
               ELSE Paginated("my_listings", user, queryset, number, param)
    /\ UNCHANGED listingVars
    /\ othersUnchanged
\* my_listings: self.queryset.filter(seller=request.user), paginated.
MyListings(user, number, param) ==
    /\ last' = IF ~check_permissions("my_listings", user)
               THEN Response("my_listings", user, 0, NoBody, permission_denied(user))
               ELSE LET mine == {id \in DOMAIN listings : listings[id].seller = user}
                    IN  Paginated("my_listings", user, NewestFirst(mine, CreatedAt),
                                  number, param)
    /\ UNCHANGED listingVars
    /\ othersUnchanged

Pages == 1..MaxPage
\* page_size parameters tried: absent, and one item a page.
SizeParams == {None, Some(1)}
ListingIds == 1..MaxListings

NoRequest == Response("none", AnonymousUser, 0, NoBody, 0)

Init ==
    /\ users = ExistingUsers
    /\ listings = <<>>
    /\ nextId = 1
    /\ creator = <<>>
    /\ issued = <<>>
    /\ blacklist = {}
    /\ expiredUpTo = 0
    /\ pc = <<>>
    /\ phoneInput = None
    /\ pgParam = None
    /\ last = NoRequest

Next ==
    \/ \E u \in Requesters, n \in Pages, s \in SizeParams : List(u, n, s)
    \/ \E u \in Requesters, id \in ListingIds : Retrieve(u, id)
    \/ \E u \in Requesters, b \in Bodies : Create(u, b)
    \/ \E u \in Requesters, id \in ListingIds, b \in Bodies : Update("update", u, id, b)
    \/ \E u \in Requesters, id \in ListingIds, b \in Bodies :
           Update("partial_update", u, id, b)
    \/ \E u \in Requesters, id \in ListingIds : Destroy(u, id)
    \/ \E u \in Requesters, n \in Pages, s \in SizeParams : MyListings(u, n, s)

Spec == Init /\ [][Next]_vars

(***************************************************************************)
(* Properties of the listing service.  In every step that changes the      *)
(* state, last' is the request the step served and its response, listings  *)
(* the store before it and listings' the store after it.                   *)
(***************************************************************************)
WriteActions == {"update", "partial_update", "destroy"}

\* C1 (as stated): an update, partial update or delete of an existing listing
\* succeeds if and only if the requester is its stored seller, and in every
\* other case fails with a permission error (403) leaving the store as it was.
C1_OwnerIffSuccess ==
    [][ LET r == last' IN
        (r.kind \in WriteActions /\ r.id \in DOMAIN listings) =>
            IF r.user = listings[r.id].seller
            THEN r.status \in {200, 204}
            ELSE r.status = 403 /\ listings' = listings ]_vars

\* C1 (amended): a write of an existing listing is permitted if and only if
\* the requester is its stored seller.  An anonymous requester is refused
\* with 401 (not authenticated), any other non-owner with 403 (permission
\* denied), the store unchanged.  The owner's delete removes the listing
\* (204); the owner's update succeeds (200) exactly when its body is valid
\* and otherwise fails with 400, the store unchanged.
C1_OwnerOnlyWrites ==
    [][ LET r == last' IN
        (r.kind \in WriteActions /\ r.id \in DOMAIN listings) =>
            LET obj == listings[r.id] IN
            /\ r.user = AnonymousUser =>
                   r.status = 401 /\ listings' = listings
            /\ (r.user # AnonymousUser /\ r.user # obj.seller) =>
                   r.status = 403 /\ listings' = listings
            /\ (r.user = obj.seller /\ r.kind = "destroy") =>
                   r.status = 204 /\ r.id \notin DOMAIN listings'
            /\ (r.user = obj.seller /\ r.kind # "destroy") =>
                   IF is_valid(r.body, r.kind = "partial_update")
                   THEN r.status = 200
                   ELSE r.status = 400 /\ listings' = listings
            /\ r.status \in {200, 204} => r.user = obj.seller ]_vars

\* C1 witness: a signed-in user who is not the seller was refused a partial
\* update of a listing that is still in the store.
C1_Witness ==
    /\ last.kind = "partial_update"
    /\ last.status = 403
    /\ last.id \in DOMAIN listings
    /\ last.user \in UserIds \ {listings[last.id].seller}

\* C2: after a successful create by user U the new listing's seller is U,
\* whatever the body, also when the body names another user as seller.
C2_CreateSetsOwner ==
    (last.kind = "create" /\ last.status = 201) =>
        /\ last.user \in UserIds
        /\ last.id \in DOMAIN listings
        /\ listings[last.id].seller = last.user

\* C2 witness: a create whose body named a different user as seller succeeded.
C2_Witness ==
    /\ last.kind = "create"
    /\ last.status = 201
    /\ "seller" \in DOMAIN last.body
    /\ last.body.seller # last.user

\* C3: every listing in the store is owned by the user who created it.
C3_OwnerIsCreator ==
    \A id \in DOMAIN listings :
        id \in DOMAIN creator /\ listings[id].seller = creator[id]

\* C3 witness: an update whose body named a user other than the listing's
\* creator was applied.
C3_Witness ==
    /\ last.kind \in {"update", "partial_update"}
    /\ last.status = 200
    /\ "seller" \in DOMAIN last.body
    /\ last.body.seller # creator[last.id]
    /\ last.id \in DOMAIN listings

Workers == {"w1", "w2"}

UNUSABLE_PASSWORD == "!"

\* The id_token of a sign-in request: absent, rejected by the verifier,
\* verified without an email claim, or verified with the claims given.
Claims(email, given, family) ==
    [valid |-> TRUE, email |-> email, given_name |-> given, family_name |-> family]
IdTokens ==
    { None,
      Some([valid |-> FALSE, email |-> None, given_name |-> "", family_name |-> ""]),
      Some(Claims(None, "Ann", "A")),
      Some(Claims(Some("a@x"), "Ann", "A")),
      Some(Claims(Some("b@x"), "Bob", "B")) }

Idle == [at |-> "idle"]

\* The rows a query for an email returns.
WithEmail(table, email) == {pk \in DOMAIN table : table[pk].email = email}

email_unique_Off(table, email) == TRUE
\* CustomUser.email: unique=True, enforced by the database on INSERT.
email_unique(table, email) == WithEmail(table, email) = {}

\* User(email=email, **defaults) as INSERTed by get_or_create.
NewUser(claims) ==
    [email |-> claims.email[1], username |-> None, first_name |-> claims.given_name,
     last_name |-> claims.family_name, phone_number |-> None, password |-> ""]

ROTATE_REFRESH_TOKENS == TRUE
BLACKLIST_AFTER_ROTATION_Off == FALSE
BLACKLIST_AFTER_ROTATION == TRUE

\* A refresh token the server accepts: signed by it, within its lifetime,
\* not blacklisted.
Exchangeable(t, iss, bl, exp) == t \in DOMAIN iss /\ t > exp /\ t \notin bl

AuthResponse(kind, status) ==
    [kind |-> kind, status |-> status, user |-> AnonymousUser, email |-> "",
     token |-> 0, refresh |-> 0, created |-> FALSE, via |-> "",
     has_phone_number |-> FALSE]

\* RefreshToken.for_user(user) and the 200 response of the sign-in.
SignInDone(w, pk, table, created, via) ==
    /\ Len(issued) < MaxTokens
    /\ issued' = Append(issued, pk)
    /\ pc' = [pc EXCEPT ![w] = Idle]
    /\ last' = [AuthResponse("signin", 200) EXCEPT
                    !.user = pk, !.email = table[pk].email,
                    !.refresh = Len(issued) + 1, !.created = created, !.via = via,
                    !.has_phone_number = (table[pk].phone_number # None
                                          /\ table[pk].phone_number # Some(<<>>))]
    /\ UNCHANGED <<blacklist, expiredUpTo>>

authOthersUnchanged == UNCHANGED <<listingVars, inputVars>>

\* post(), up to the SELECT of get_or_create.
SignInGet(w, tok) ==
    /\ pc[w].at = "idle"
    /\ IF tok = None
       THEN /\ last' = AuthResponse("signin", 400)
            /\ UNCHANGED <<users, tokenVars, pc>>
       ELSE IF ~tok[1].valid
       THEN /\ last' = AuthResponse("signin", 401)
            /\ UNCHANGED <<users, tokenVars, pc>>
       ELSE IF tok[1].email = None
       THEN /\ last' = AuthResponse("signin", 400)
            /\ UNCHANGED <<users, tokenVars, pc>>
       ELSE LET found == WithEmail(users, tok[1].email[1]) IN
            IF Cardinality(found) > 1
            THEN \* MultipleObjectsReturned, caught by the handler's except
                 /\ last' = AuthResponse("signin", 500)
                 /\ UNCHANGED <<users, tokenVars, pc>>
            ELSE IF found # {}
            THEN /\ SignInDone(w, CHOOSE pk \in found : TRUE, users, FALSE, "get")
                 /\ UNCHANGED users
            ELSE /\ pc' = [pc EXCEPT ![w] = [at |-> "miss", claims |-> tok[1]]]
                 /\ last' = [AuthResponse("signin_select", 0) EXCEPT
                                !.email = tok[1].email[1]]
                 /\ UNCHANGED <<users, tokenVars>>
    /\ authOthersUnchanged

\* The INSERT of get_or_create; on IntegrityError the row is SELECTed again.
SignInCreate(w) ==
    /\ pc[w].at = "miss"
    /\ LET claims == pc[w].claims
           email == claims.email[1]
       IN  IF email_unique(users, email)
           THEN LET pk == Cardinality(DOMAIN users) + 1 IN
                /\ users' = users @@ (pk :> NewUser(claims))
                /\ pc' = [pc EXCEPT ![w] = [at |-> "created", pk |-> pk,
                                            user |-> NewUser(claims)]]
                /\ last' = [AuthResponse("signin_insert", 0) EXCEPT !.email = email]
                /\ UNCHANGED tokenVars
           ELSE /\ SignInDone(w, CHOOSE pk \in WithEmail(users, email) : TRUE,
                              users, FALSE, "integrity_error")
                /\ UNCHANGED users
    /\ authOthersUnchanged

\* if created: user.set_unusable_password(); user.save() -- the whole row is
\* written from the request's instance -- then the tokens.
SignInSave(w) ==
    /\ pc[w].at = "created"
    /\ LET pk == pc[w].pk
           row == [pc[w].user EXCEPT !.password = UNUSABLE_PASSWORD]
           table == [users EXCEPT ![pk] = row]
       IN  /\ users' = table
           /\ SignInDone(w, pk, table, TRUE, "created")
    /\ authOthersUnchanged

\* TokenRefreshView: verify the token, answer a new access token and, under
\* ROTATE_REFRESH_TOKENS, a new refresh token; blacklist the one presented.
Refresh(t) ==
    /\ IF ~Exchangeable(t, issued, blacklist, expiredUpTo)
       THEN /\ last' = [AuthResponse("refresh", 401) EXCEPT !.token = t]
            /\ UNCHANGED tokenVars
       ELSE /\ Len(issued) < MaxTokens
            /\ blacklist' = IF ROTATE_REFRESH_TOKENS /\ BLACKLIST_AFTER_ROTATION
                            THEN blacklist \cup {t} ELSE blacklist
            /\ issued' = IF ROTATE_REFRESH_TOKENS
                         THEN Append(issued, issued[t]) ELSE issued
            /\ last' = [AuthResponse("refresh", 200) EXCEPT
                            !.token = t, !.user = issued[t],
                            !.refresh = IF ROTATE_REFRESH_TOKENS
                                        THEN Len(issued) + 1 ELSE t]
            /\ UNCHANGED expiredUpTo
    /\ UNCHANGED <<users, pc>>
    /\ authOthersUnchanged

\* logout/ is routed to core_users.views.LogoutView, which views.py does not
\* define: no handler of the repository blacklists the token presented, and
\* the request ends as a server error.
Logout(user, t) ==
    /\ last' = [AuthResponse("logout", 500) EXCEPT !.user = user, !.token = t]
    /\ UNCHANGED <<users, tokenVars, pc>>
    /\ authOthersUnchanged

\* REFRESH_TOKEN_LIFETIME passes for the oldest refresh token still alive.
Elapse ==
    /\ expiredUpTo < Len(issued)
    /\ expiredUpTo' = expiredUpTo + 1
    /\ last' = AuthResponse("elapse", 0)
    /\ UNCHANGED <<users, issued, blacklist, pc>>
    /\ authOthersUnchanged

TokenIds == 1..(MaxTokens + 1)

InitAuth ==
    /\ users = <<>>
    /\ listings = <<>>
    /\ nextId = 1
    /\ creator = <<>>
    /\ issued = <<>>
    /\ blacklist = {}
    /\ expiredUpTo = 0
    /\ pc = [w \in Workers |-> Idle]
    /\ phoneInput = None
    /\ pgParam = None
    /\ last = AuthResponse("none", 0)

NextAuth ==
    \/ \E w \in Workers, tok \in IdTokens : SignInGet(w, tok)
    \/ \E w \in Workers : SignInCreate(w)
    \/ \E w \in Workers : SignInSave(w)
    \/ \E t \in TokenIds : Refresh(t)
    \/ \E u \in DOMAIN users \cup {AnonymousUser}, t \in TokenIds : Logout(u, t)
    \/ Elapse

SpecAuth == InitAuth /\ [][NextAuth]_vars

(***************************************************************************)
(* Properties of the sign-in and of the session tokens (under SpecAuth).   *)
(***************************************************************************)
UniqueEmails ==
    \A p \in DOMAIN users, q \in DOMAIN users :
        users[p].email = users[q].email => p = q

\* C7: under every interleaving of sign-ins there is at most one User per
\* email; once no sign-in is in flight every User's password is marked
\* unusable; and every successful sign-in answers a session bound to the one
\* User with its email, creating a User only when none had that email.
C7_OneUserPerEmail ==
    /\ UniqueEmails
    /\ (\A w \in Workers : pc[w].at = "idle") =>
           \A pk \in DOMAIN users : users[pk].password = UNUSABLE_PASSWORD
    /\ (last.kind = "signin" /\ last.status = 200) =>
           /\ WithEmail(users, last.email) = {last.user}
           /\ last.refresh \in DOMAIN issued
           /\ issued[last.refresh] = last.user
           /\ last.created => users[last.user].password = UNUSABLE_PASSWORD

\* C7 witness: two sign-ins with the same unseen email ran interleaved; the
\* one whose INSERT lost to the other got a session for the row the other
\* created, and that is the only row.
C7_Witness ==
    /\ last.kind = "signin"
    /\ last.status = 200
    /\ last.via = "integrity_error"
    /\ Cardinality(DOMAIN users) = 1

\* C8: a refresh exchange presenting an acceptable token T answers a new
\* refresh token bound to the same user and blacklists T; the new token is
\* acceptable; a blacklisted token stays blacklisted; and an exchange
\* presenting a token that is not acceptable (so every exchange presenting T
\* again) fails with 401 and changes nothing.
C8_RefreshSingleUse ==
    [][ /\ blacklist \subseteq blacklist'
        /\ LET r == last' IN
           r.kind = "refresh" =>
               IF Exchangeable(r.token, issued, blacklist, expiredUpTo)
               THEN /\ r.status = 200
                    /\ r.token \in blacklist'
                    /\ r.refresh \notin DOMAIN issued
                    /\ r.refresh # r.token
                    /\ Exchangeable(r.refresh, issued', blacklist', expiredUpTo')
                    /\ issued'[r.refresh] = issued[r.token]
               ELSE /\ r.status = 401
                    /\ UNCHANGED tokenVars ]_vars

\* C8 witness: a token obtained from a refresh exchange was itself exchanged,
\* and presenting it a second time was refused.
C8_Witness ==
    /\ last.kind = "refresh"
    /\ last.status = 401
    /\ last.token \in blacklist
    /\ last.token > expiredUpTo
    /\ \E t \in blacklist : t < last.token /\ issued[t] = issued[last.token]

\* C9 (as stated): after a logout by an authenticated user presenting refresh
\* token T, T is blacklisted and no refresh exchange accepts it.
C9_LogoutBlacklists ==
    (last.kind = "logout" /\ last.user # AnonymousUser
        /\ last.token \in DOMAIN issued) =>
        /\ last.token \in blacklist
        /\ ~Exchangeable(last.token, issued, blacklist, expiredUpTo)

(***************************************************************************)
(* core_users/serializers.py UserProfileSerializer and core_users/views.py *)
(* UserProfileView.                                                        *)
(***************************************************************************)
Digits == {Digit}
Space == " "

\* str.strip()
RECURSIVE lstrip(_)
lstrip(s) == IF s # <<>> /\ Head(s) = Space THEN lstrip(Tail(s)) ELSE s
RECURSIVE rstrip(_)
rstrip(s) ==
    IF s # <<>> /\ s[Len(s)] = Space THEN rstrip(SubSeq(s, 1, Len(s) - 1)) ELSE s
strip(s) == rstrip(lstrip(s))

\* str.isdigit(): not empty, every character a digit.
isdigit(s) == s # <<>> /\ \A i \in 1..Len(s) : s[i] \in Digits

\* Python truth of an optional text: neither None nor "".
truthy(value) == value # None /\ value[1] # <<>>

phone_max_length == 10

\* The serializer's CharField for phone_number (max_length=10, null=True,
\* blank=True): None passes as None, a blank text as "", any other text is
\* stripped and must not be longer than max_length.
phone_field(data) ==
    IF data = None THEN [ok |-> TRUE, value |-> None]
    ELSE LET text == strip(data[1]) IN
         IF text = <<>> THEN [ok |-> TRUE, value |-> Some(<<>>)]
         ELSE IF Len(text) > phone_max_length THEN [ok |-> FALSE, value |-> None]
         ELSE [ok |-> TRUE, value |-> Some(text)]

validate_phone_number_NoLength(value) ==
    ~(truthy(value) /\ ~isdigit(value[1]))
\* validate_phone_number: TRUE when it returns the value, FALSE when it raises.
validate_phone_number(value) ==
    /\ ~(truthy(value) /\ ~isdigit(value[1]))
    /\ ~(truthy(value) /\ Len(value[1]) # 10)

ProfileFields == {"id", "email", "first_name", "last_name", "phone_number"}
read_only_fields == {"id", "email", "first_name", "last_name"}

\* serializer.is_valid() and serializer.validated_data of a partial update:
\* read-only and undeclared fields of the body are dropped unexamined.
profile_validate(data) ==
    LET writable == Restrict(data, ProfileFields \ read_only_fields) IN
    IF "phone_number" \notin DOMAIN writable
    THEN [ok |-> TRUE, validated_data |-> NoBody]
    ELSE LET f == phone_field(writable.phone_number) IN
         IF f.ok /\ validate_phone_number(f.value)
         THEN [ok |-> TRUE, validated_data |-> [phone_number |-> f.value]]
         ELSE [ok |-> FALSE, validated_data |-> NoBody]

put_AcceptsAnyBody(row, data) ==
    LET v == profile_validate(data) IN
    IF ~v.ok THEN [status |-> 400, row |-> row]
    ELSE [status |-> 200,
          row |-> IF "phone_number" \in DOMAIN v.validated_data
                  THEN [row EXCEPT !.phone_number = v.validated_data.phone_number]
                  ELSE row]
put_SavesBody(row, data) ==
    LET v == profile_validate(data) IN
    IF v.ok /\ "phone_number" \in DOMAIN v.validated_data
    THEN [status |-> 200,
          row |-> Merge([row EXCEPT !.phone_number = v.validated_data.phone_number],
                        Restrict(data, read_only_fields))]
    ELSE [status |-> 400, row |-> row]
\* UserProfileView.put, after authentication: the status and the user's row.
\* user.save(update_fields=['phone_number']) writes that one column.
put(row, data) ==
    LET v == profile_validate(data) IN
    IF v.ok
    THEN IF "phone_number" \in DOMAIN v.validated_data
         THEN [status |-> 200,
               row |-> [row EXCEPT !.phone_number = v.validated_data.phone_number]]
         ELSE [status |-> 400, row |-> row]
    ELSE [status |-> 400, row |-> row]

ProfileResponse(kind, user, body, status) ==
    [kind |-> kind, user |-> user, body |-> body, status |-> status]

profileOthersUnchanged == UNCHANGED <<listingVars, tokenVars, pc, inputVars>>

UpdateProfile(user, data) ==
    /\ IF ~IsAuthenticated(user)
       THEN /\ last' = ProfileResponse("update_profile", user, data, 401)
            /\ UNCHANGED users
       ELSE LET res == put(users[user], data) IN
            /\ users' = [users EXCEPT ![user] = res.row]
            /\ last' = ProfileResponse("update_profile", user, data, res.status)
    /\ profileOthersUnchanged

GetProfile(user) ==
    /\ last' = ProfileResponse("get_profile", user, NoBody,
                               IF IsAuthenticated(user) THEN 200 ELSE 401)
    /\ UNCHANGED users
    /\ profileOthersUnchanged

\* The phone numbers submitted: null, and every run of digits of up to
\* MaxPhoneLen characters, as it is or with one character replaced by a
\* letter or a space, with or without a space before and after it.
Rep(c, n) == [i \in 1..n |-> c]
PhoneCores ==
    { Rep(Digit, n) : n \in 0..MaxPhoneLen }
    \cup UNION { { [Rep(Digit, n) EXCEPT ![k] = c] : k \in 1..n, c \in {"a", Space} } :
                 n \in 1..MaxPhoneLen }
PhoneInputs ==
    {None} \cup
    { Some(Rep(Space, l) \o core \o Rep(Space, r)) :
      l \in 0..1, r \in 0..1, core \in PhoneCores }

\* The bodies of the profile updates, around the phone number under test.
ProfileBodies(phone) ==
    { NoBody,
      [phone_number |-> phone],
      [email |-> "z@x"],
      [phone_number |-> phone, email |-> "z@x"],
      [phone_number |-> phone, first_name |-> "Zed", last_name |-> "Z"] }

InitProfile ==
    /\ users = ExistingUsers
    /\ listings = <<>>
    /\ nextId = 1
    /\ creator = <<>>
    /\ issued = <<>>
    /\ blacklist = {}
    /\ expiredUpTo = 0
    /\ pc = <<>>
    /\ phoneInput \in PhoneInputs
    /\ pgParam = None
    /\ last = ProfileResponse("none", AnonymousUser, NoBody, 0)

NextProfile ==
    \/ \E u \in Requesters, b \in ProfileBodies(phoneInput) : UpdateProfile(u, b)
    \/ \E u \in Requesters : GetProfile(u)

SpecProfile == InitProfile /\ [][NextProfile]_vars

(***************************************************************************)
(* Properties of the profile update (under SpecProfile).  In every step    *)
(* that changes the state, last' is the request served, users the table    *)
(* before it and users' the table after it.                                *)
(***************************************************************************)
IsProfileUpdate(r) ==
    r.kind = "update_profile" /\ r.user # AnonymousUser

\* Exactly 10 characters, every one a digit.
TenDigitText(s) == Len(s) = 10 /\ \A i \in 1..Len(s) : s[i] \in Digits

\* Null, or empty or ten digits once the white space around it is stripped.
AcceptablePhone(v) ==
    v = None \/ strip(v[1]) = <<>> \/ TenDigitText(strip(v[1]))

\* C5 (as stated): a submitted phone number is accepted only if it is exactly
\* 10 characters long and all digits; every other value, the empty one
\* included, is rejected with 400 and the stored phone number is unchanged.
C5_OnlyTenDigits ==
    [][ LET r == last' IN
        (IsProfileUpdate(r) /\ "phone_number" \in DOMAIN r.body) =>
            LET v == r.body.phone_number IN
            (v = None \/ ~TenDigitText(v[1])) =>
                r.status = 400 /\ users' = users ]_vars

\* C5 (amended): a submitted phone number is accepted if and only if it is
\* null, or, once the white space around it is stripped, it is empty or
\* exactly 10 characters long and all digits; the stripped value (or null) is
\* what is stored.  Every other value is rejected with 400 and the stored
\* phone number is unchanged.
C5_EmptyOrTenDigits ==
    [][ LET r == last' IN
        (IsProfileUpdate(r) /\ "phone_number" \in DOMAIN r.body) =>
            LET v == r.body.phone_number IN
            IF v = None
            THEN r.status = 200 /\ users'[r.user].phone_number = None
            ELSE IF strip(v[1]) = <<>> \/ TenDigitText(strip(v[1]))
            THEN r.status = 200 /\ users'[r.user].phone_number = Some(strip(v[1]))
            ELSE r.status = 400 /\ users' = users ]_vars

\* C5 witness: a value of 10 characters that are not all digits was rejected
\* and the requester's stored 10-digit number is still there.
C5_Witness ==
    /\ IsProfileUpdate(last)
    /\ "phone_number" \in DOMAIN last.body
    /\ last.body.phone_number # None
    /\ Len(last.body.phone_number[1]) = 10
    /\ ~TenDigitText(last.body.phone_number[1])
    /\ last.status = 400
    /\ users[last.user].phone_number = Some(TenDigits)

\* C6 (as stated): an update-profile request whose body submits a field other
\* than phone_number fails with 400, with or without a valid phone_number.
C6_OtherFieldsRejected ==
    (IsProfileUpdate(last) /\ DOMAIN last.body \ {"phone_number"} # {}) =>
        last.status = 400

\* C6 (amended): an update-profile request fails with 400 exactly when its
\* body carries no phone_number or one that fails validation.  Other fields
\* of the body are ignored: submitted without a phone_number they end in that
\* 400, submitted with a valid phone_number the request succeeds (200), and
\* in every case they keep their stored values.
C6_OtherFieldsIgnored ==
    [][ LET r == last' IN
        IsProfileUpdate(r) =>
            /\ r.status \in {200, 400}
            /\ r.status = 400 <=>
                   \/ "phone_number" \notin DOMAIN r.body
                   \/ ~AcceptablePhone(r.body.phone_number)
            /\ \A f \in {"email", "first_name", "last_name", "password"} :
                   users'[r.user][f] = users[r.user][f] ]_vars

\* C6 witness: a body with a valid phone_number and a new email was answered
\* 200; the phone number was stored and the email was not.
C6_Witness ==
    /\ IsProfileUpdate(last)
    /\ last.status = 200
    /\ "email" \in DOMAIN last.body
    /\ last.body.email # users[last.user].email
    /\ last.body.phone_number = Some(TenDigits)
    /\ users[last.user].phone_number = Some(TenDigits)
    /\ last.user = 1

(***************************************************************************)
(* The paginated list over stores of up to MaxCount listings.  The store   *)
(* of the initial state is the one that many create requests leave; the    *)
(* requests are the list requests of ListingViewSet.                       *)
(***************************************************************************)
StoreOf(n) ==
    [id \in 1..n |-> perform_create(1, [title |-> "t1", description |-> "d1"], id)]

PageSizeParams == {None} \cup {Some(n) : n \in 0..MaxSizeParam}

InitPage ==
    /\ users = ExistingUsers
    /\ \E n \in 0..MaxCount :
           /\ listings = StoreOf(n)
           /\ nextId = n + 1
           /\ creator = [id \in 1..n |-> 1]
    /\ issued = <<>>
    /\ blacklist = {}
    /\ expiredUpTo = 0
    /\ pc = <<>>
    /\ phoneInput = None
    /\ pgParam \in PageSizeParams
    /\ last = NoRequest

NextPage ==
    \/ \E u \in Requesters, n \in Pages : List(u, n, pgParam)
    \/ \E u \in Requesters, n \in Pages : MyListings(u, n, pgParam)

SpecPage == InitPage /\ [][NextPage]_vars

\* The page size in effect for a request: the caller's page_size when it is
\* 1..100 (a larger one is cut to 100), the default 8 otherwise.
SizeInEffect(param) ==
    IF param # None /\ param[1] >= 1 THEN Min(param[1], 100) ELSE 8

\* C10 (as stated): the total_pages of a paginated response is
\* ceil(N / s) for the N listings paginated and the page size s in effect.
C10_TotalPages ==
    (last.kind = "list" /\ last.status = 200) =>
        last.total_pages =
            CeilDiv(Cardinality(DOMAIN listings), SizeInEffect(last.size))

(***************************************************************************)
(* Properties of my_listings (under Spec).  A my_listings request leaves   *)
(* the store as it is, so in a state whose last request is a my_listings   *)
(* the store is the one the request read.                                  *)
(***************************************************************************)
\* The listings whose seller is the user.
OwnedBy(user) == {id \in DOMAIN listings : listings[id].seller = user}

\* How many of the user's listings were created after the listing id.
NewerOwned(user, id) ==
    Cardinality({j \in OwnedBy(user) :
                    listings[j].created_at > listings[id].created_at})

\* The page of the user's my_listings that the listing id belongs on.
PageOf(user, id, per) == (NewerOwned(user, id) \div per) + 1

C12_OnlyPhoneNumberChanges ==
    [][ LET r == last' IN
        (IsProfileUpdate(r) /\ r.status = 200) =>
            /\ DOMAIN users' = DOMAIN users
            /\ \A u \in DOMAIN users \ {r.user} : users'[u] = users[u]
            /\ DOMAIN users'[r.user] = DOMAIN users[r.user]
            /\ \A f \in {"email", "first_name", "last_name", "username", "password"} :
                   users'[r.user][f] = users[r.user][f] ]_vars

\* C12 witness: user 2's update with new names and a blank phone number was
\* answered 200; the stored 10-digit number was replaced, the names were
\* not, and user 1's row is what it was.
C12_Witness ==
    /\ IsProfileUpdate(last)
    /\ last.status = 200
    /\ last.user = 2
    /\ "first_name" \in DOMAIN last.body
    /\ last.body.first_name # users[2].first_name
    /\ users[2].phone_number # ExistingUsers[2].phone_number
    /\ users[2].first_name = ExistingUsers[2].first_name
    /\ users[1] = ExistingUsers[1]

(***************************************************************************)
(* The listing requests statement by statement.  A request of              *)
(* ListingViewSet is served by a worker; requests of different workers     *)
(* interleave between their database statements (the settings set no       *)
(* ATOMIC_REQUESTS and the views open no transaction).  A create is one    *)
(* INSERT and a retrieve one SELECT, so Create and RetrieveData are single *)
(* steps; an update and a delete are the SELECT of get_object followed by  *)
(* one UPDATE or DELETE; a list is the paginator's COUNT followed by the   *)
(* SELECT of the page.                                                     *)
(***************************************************************************)
Writer == "w1"
Reader == "w2"

concOthersUnchanged == UNCHANGED <<users, tokenVars, inputVars>>

ReadFields ==
    {"title", "description", "tags", "price", "negotiable", "year", "status"}

\* ListingReadSerializer: the listing's fields and its seller's name, phone
\* and email, read by the same SELECT (select_related('seller')).
to_representation(id) ==
    LET row == listings[id]
        seller == users[row.seller]
    IN  [id |-> id, title |-> row.title, description |-> row.description,
         tags |-> row.tags, price |-> row.price, negotiable |-> row.negotiable,
         year |-> row.year, status |-> row.status,
         name |-> <<seller.first_name, seller.last_name>>,
         phone |-> seller.phone_number, email |-> seller.email]

\* A response carrying serializer data.
WithData(resp, data) ==
    [k \in DOMAIN resp \cup {"data"} |-> IF k = "data" THEN data ELSE resp[k]]

\* retrieve: get_object's SELECT and the serialized listing.
RetrieveData(user, id) ==
    /\ last' = IF ~check_permissions("retrieve", user)
               THEN Response("retrieve", user, id, NoBody, permission_denied(user))
               ELSE IF id \notin DOMAIN listings
               THEN Response("retrieve", user, id, NoBody, 404)
               ELSE IF ~has_object_permission("GET", user, listings[id])
               THEN Response("retrieve", user, id, NoBody, permission_denied(user))
               ELSE WithData(Response("retrieve", user, id, NoBody, 200),
                             <<to_representation(id)>>)
    /\ UNCHANGED <<listingVars, pc>>
    /\ concOthersUnchanged

\* list, first statement: the paginator's COUNT, against which the page
\* number is validated.
ListCount(w, user, number, param) ==
    /\ pc[w].at = "idle"
    /\ LET count == Cardinality(DOMAIN listings)
           base == [Response("list", user, 0, NoBody, 200)
                       EXCEPT !.page = number, !.size = param]
       IN  IF ~check_permissions("list", user)
           THEN /\ last' = [base EXCEPT !.status = permission_denied(user)]
                /\ UNCHANGED pc
           ELSE IF number < 1 \/ number > num_pages(count, get_page_size(param))
           THEN /\ last' = [base EXCEPT !.status = 404]
                /\ UNCHANGED pc
           ELSE /\ pc' = [pc EXCEPT ![w] =
                            [at |-> "page", action |-> "list", user |-> user,
                             number |-> number, param |-> param, count |-> count]]
                /\ last' = [base EXCEPT !.kind = "count", !.status = 0]
    /\ UNCHANGED listingVars
    /\ concOthersUnchanged

\* list, second statement: the SELECT of the page's slice, serialized.
ListPage(w) ==
    /\ pc[w].at = "page"
    /\ LET per == get_page_size(pc[w].param)
           bottom == (pc[w].number - 1) * per
           top == Min(Min(bottom + per, pc[w].count), Len(queryset))
           items == IF bottom < top THEN SubSeq(queryset, bottom + 1, top) ELSE <<>>
       IN  last' = WithData([Response("list", pc[w].user, 0, NoBody, 200)
                                EXCEPT !.page = pc[w].number, !.size = pc[w].param,
                                       !.items = items,
                                       !.total_pages = total_pages(pc[w].count)],
                            [i \in 1..Len(items) |-> to_representation(items[i])])
    /\ pc' = [pc EXCEPT ![w] = Idle]
    /\ UNCHANGED listingVars
    /\ concOthersUnchanged

\* update, partial_update and destroy up to the statement that writes: the
\* permission checks, get_object's SELECT into the request's instance and,
\* for the updates, the serializer's validation.
GetObject(w, action, user, id, data) ==
    /\ pc[w].at = "idle"
    /\ IF ~check_permissions(action, user)
       THEN /\ last' = Response(action, user, id, data, permission_denied(user))
            /\ UNCHANGED pc
       ELSE IF id \notin DOMAIN listings
       THEN /\ last' = Response(action, user, id, data, 404)
            /\ UNCHANGED pc
       ELSE IF ~has_object_permission(Method(action), user, listings[id])
       THEN /\ last' = Response(action, user, id, data, permission_denied(user))
            /\ UNCHANGED pc
       ELSE IF action # "destroy" /\ ~is_valid(data, action = "partial_update")
       THEN /\ last' = Response(action, user, id, data, 400)
            /\ UNCHANGED pc
       ELSE /\ pc' = [pc EXCEPT ![w] =
                        [at |-> "save", action |-> action, user |-> user, id |-> id,
                         data |-> data, instance |-> listings[id]]]
            /\ last' = Response("get_object", user, id, data, 0)
    /\ UNCHANGED listingVars
    /\ concOthersUnchanged

PerformUpdate_FieldByField(w) ==
    /\ pc[w].at \in {"save", "save_rest"}
    /\ pc[w].action \in {"update", "partial_update"}
    /\ pc[w].id \in DOMAIN listings
    /\ IF pc[w].at = "save" /\ "title" \in DOMAIN pc[w].data
       THEN /\ listings' = [listings EXCEPT ![pc[w].id].title = pc[w].data.title]
            /\ pc' = [pc EXCEPT ![w].at = "save_rest"]
            /\ last' = Response("update_title", pc[w].user, pc[w].id, pc[w].data, 0)
       ELSE /\ listings' = [listings EXCEPT
                               ![pc[w].id] = perform_update(pc[w].instance, pc[w].data)]
            /\ pc' = [pc EXCEPT ![w] = Idle]
            /\ last' = Response(pc[w].action, pc[w].user, pc[w].id, pc[w].data, 200)
    /\ UNCHANGED <<nextId, creator>>
    /\ concOthersUnchanged
\* perform_update: serializer.save() sets the validated fields on the
\* request's instance and calls instance.save(), one UPDATE that writes every
\* column of the row from the instance (and an INSERT of the instance when
\* the UPDATE matched no row).
PerformUpdate(w) ==
    /\ pc[w].at = "save"
    /\ pc[w].action \in {"update", "partial_update"}
    /\ LET id == pc[w].id
           row == perform_update(pc[w].instance, pc[w].data)
       IN  listings' = IF id \in DOMAIN listings
                       THEN [listings EXCEPT ![id] = row]
                       ELSE listings @@ (id :> row)
    /\ pc' = [pc EXCEPT ![w] = Idle]
    /\ last' = Response(pc[w].action, pc[w].user, pc[w].id, pc[w].data, 200)
    /\ UNCHANGED <<nextId, creator>>
    /\ concOthersUnchanged

\* perform_destroy: instance.delete(), one DELETE of the row.
PerformDestroy(w) ==
    /\ pc[w].at = "save"
    /\ pc[w].action = "destroy"
    /\ listings' = [k \in DOMAIN listings \ {pc[w].id} |-> listings[k]]
    /\ pc' = [pc EXCEPT ![w] = Idle]
    /\ last' = Response("destroy", pc[w].user, pc[w].id, NoBody, 204)
    /\ UNCHANGED <<nextId, creator>>
    /\ concOthersUnchanged

\* The bodies a write request of the given action carries.
BodiesOf(action) == IF action = "destroy" THEN {NoBody} ELSE Bodies

\* One worker serving the write requests, one after the other, while list
\* and retrieve requests are served concurrently.
InitWrite ==
    /\ users = ExistingUsers
    /\ listings = <<>>
    /\ nextId = 1
    /\ creator = <<>>
    /\ issued = <<>>
    /\ blacklist = {}
    /\ expiredUpTo = 0
    /\ pc = [w \in Workers |-> Idle]
    /\ phoneInput = None
    /\ pgParam = None
    /\ last = NoRequest

\* The write requests are user 1's, the read requests carry no credentials.
WritingUsers == {1}
ReadingUsers == {AnonymousUser}

NextWrite ==
    \/ \E u \in WritingUsers, b \in Bodies :
           pc[Writer].at = "idle" /\ Create(u, b)
    \/ \E action \in WriteActions, u \in WritingUsers, id \in ListingIds :
           \E b \in BodiesOf(action) : GetObject(Writer, action, u, id, b)
    \/ PerformUpdate(Writer)
    \/ PerformDestroy(Writer)
    \/ \E u \in ReadingUsers, id \in ListingIds : RetrieveData(u, id)
    \/ \E u \in ReadingUsers, n \in Pages, s \in SizeParams :
           ListCount(Reader, u, n, s)
    \/ ListPage(Reader)

SpecWrite == InitWrite /\ [][NextWrite]_vars

\* Two workers serving user 1's update, partial update and delete requests
\* at the same time, over a store of listings that user 1 created.  The bodies: one
\* that sets the title, one that sets the price, and a complete one.
RaceBodies ==
    { [title |-> "t2"], [price |-> Some(5)], [title |-> "t1", description |-> "d1"] }

RaceBodiesOf(action) == IF action = "destroy" THEN {NoBody} ELSE RaceBodies

InitRace ==
    /\ users = ExistingUsers
    /\ \E n \in 1..MaxListings :
           /\ listings = StoreOf(n)
           /\ nextId = n + 1
           /\ creator = [id \in 1..n |-> 1]
    /\ issued = <<>>
    /\ blacklist = {}
    /\ expiredUpTo = 0
    /\ pc = [w \in Workers |-> Idle]
    /\ phoneInput = None
    /\ pgParam = None
    /\ last = NoRequest

NextRace ==
    \/ \E w \in Workers, action \in WriteActions, u \in WritingUsers,
          id \in ListingIds :
           \E b \in RaceBodiesOf(action) : GetObject(w, action, u, id, b)
    \/ \E w \in Workers : PerformUpdate(w)
    \/ \E w \in Workers : PerformDestroy(w)

SpecRace == InitRace /\ [][NextRace]_vars

(***************************************************************************)
(* Properties of the interleaved listing requests.                         *)
(***************************************************************************)
\* An update of the row `before` with the body is in flight, and the data
\* read shows the body's value of one field that the update changes but not
\* of another.
Torn(data, before, body) ==
    \E f \in DOMAIN body \cap ReadFields, g \in DOMAIN body \cap ReadFields :
        /\ before[f] # body[f]
        /\ data[f] = body[f]
        /\ data[g] # body[g]

\* The update or partial update the worker has in flight on the listing.
UpdateInFlight(w, id) ==
    /\ pc[w].at # "idle"
    /\ pc[w].action \in {"update", "partial_update"}
    /\ pc[w].id = id

\* C13 (under SpecWrite): whatever a retrieve or a list reads while one
\* worker serves creates, updates and deletes, every listing it returns is
\* whole: it has the title and the description no create leaves out, and
\* when an update of it is in flight it does not show some of the update's
\* fields applied and others not.
C13_NoPartialListing ==
    [][ LET r == last' IN
        (r.kind \in {"retrieve", "list"} /\ r.status = 200) =>
            \A i \in 1..Len(r.data) :
                LET d == r.data[i] IN
                /\ d.title # "" /\ d.description # ""
                /\ UpdateInFlight(Writer, d.id) =>
                       ~Torn(d, pc[Writer].instance, pc[Writer].data) ]_vars

\* C13 witness: a retrieve read a listing between the SELECT and the UPDATE
\* of an update that changes its title and its price, and was answered with
\* the listing's old title and old price.
C13_Witness ==
    /\ last.kind = "retrieve"
    /\ last.status = 200
    /\ UpdateInFlight(Writer, last.id)
    /\ pc[Writer].at = "save"
    /\ "title" \in DOMAIN pc[Writer].data
    /\ "price" \in DOMAIN pc[Writer].data
    /\ pc[Writer].data.title # pc[Writer].instance.title
    /\ pc[Writer].data.price # pc[Writer].instance.price
    /\ last.data[1].title = pc[Writer].instance.title
    /\ last.data[1].price = pc[Writer].instance.price

\* C14 (as stated, under SpecRace): a successful partial update changes only
\* the fields present in its body -- every other field of the stored listing
\* is after the request what it was before it -- so that when two partial
\* updates on disjoint fields of one listing interleave, the new value one
\* of them stored is still there after the other.
C14_PartialUpdateKeepsOtherFields ==
    [][ LET r == last' IN
        (r.kind = "partial_update" /\ r.status = 200 /\ r.id \in DOMAIN listings) =>
            /\ r.id \in DOMAIN listings'
            /\ \A f \in DOMAIN listings[r.id] :
                   listings'[r.id][f] =
                       IF f \in DOMAIN r.body \cap WriteFields
                       THEN r.body[f] ELSE listings[r.id][f] ]_vars

====
